---------------------------- MODULE Spec2Model ----------------------------
(***************************************************************************)
(* A model of the notebook RYO-He.ipynb: a real-space grid, the finite-    *)
(* difference Laplacian, the external and compensation potentials, and one *)
(* pass of the Kohn-Sham cycle (get_Vtot).                                 *)
(*                                                                         *)
(* Numbers.  Grid coordinates, the spacing h, the distances, the entries   *)
(* of Vext and of every matrix, Psi and n are float64 values: +, -, *, /,  *)
(* sqrt and the square of an array round to 53 bits, to nearest with ties  *)
(* to even, and keep inf, nan and the sign of zero.  A power of a scalar   *)
(* (h**2., h**3.0, h**(3./2.), e**2., hbar**2.) is the C library's pow,    *)
(* which is within one unit in the last place but not always the nearest:  *)
(* it is a choice between the two float64 next to the exact power.  A      *)
(* quantity that passes through erf, exp or a cube root is kept as a       *)
(* record naming the float64 the function is taken of.                     *)
(*                                                                         *)
(* The kernel.  The notebook is a sequence of cells run in order.  `names` *)
(* is the kernel's global namespace (a name outside it raises NameError),  *)
(* `status` is the ename of the last cell run ("ok" when it raised         *)
(* nothing).  A cell that raises keeps the assignments made before the     *)
(* raising statement.  The recorded outputs show the author running on     *)
(* past the NameError of In[15] (n.shape) and of In[51] (aaa), so those    *)
(* two do not end the session; an exception that leaves the grid undefined *)
(* (In[2]) or that escapes get_Vtot ends it.                               *)
(***************************************************************************)
EXTENDS Integers, Sequences, FiniteSets, Bags, TLC

(* ------------------------------ bounds --------------------------------- *)
\* Largest number of grid points per axis that is explored (the notebook: 30).
MaxG == 5
\* Largest half-width of the box that is explored (the notebook: 5).
MaxHalfWidth == 3
\* Largest number of times the cell In[51] is run in one session.
MaxRuns == 2
\* Constant test vectors c * ones(g) range over -MaxConst..MaxConst.
MaxConst == 3

(* --------------------------- program constants ------------------------- *)
hbar == 1
m == 1
e == 1
\* maxiter handed to cgs
maxiter == 400

(* --------------------- natural numbers of any size --------------------- *)
Abs(x) == IF x < 0 THEN -x ELSE x

\* A natural number is the sequence of its digits in base 2^15, lowest first,
\* without leading zeros (<<>> is 0): TLC's own integers have 32 bits, a
\* float64 significand has 53.
LimbBits == 15
Base == 2 ^ LimbBits

BHead(a) == IF a = <<>> THEN 0 ELSE a[1]
BTail(a) == IF a = <<>> THEN <<>> ELSE Tail(a)

RECURSIVE BNorm(_)
BNorm(a) ==
    IF a = <<>> THEN a
    ELSE IF a[Len(a)] = 0 THEN BNorm(SubSeq(a, 1, Len(a) - 1)) ELSE a

BNat(k) == BNorm(<<k % Base, k \div Base>>)

RECURSIVE BAddC(_, _, _)
BAddC(a, v, c) ==
    IF a = <<>> /\ v = <<>> THEN (IF c = 0 THEN <<>> ELSE <<c>>)
    ELSE LET t == BHead(a) + BHead(v) + c
         IN  <<t % Base>> \o BAddC(BTail(a), BTail(v), t \div Base)
BAdd(a, v) == BAddC(a, v, 0)

\* a - v for a >= v
RECURSIVE BSubC(_, _, _)
BSubC(a, v, c) ==
    IF a = <<>> THEN <<>>
    ELSE LET t == a[1] - BHead(v) - c
         IN  <<IF t < 0 THEN t + Base ELSE t>> \o BSubC(Tail(a), BTail(v), IF t < 0 THEN 1 ELSE 0)
BSub(a, v) == BNorm(BSubC(a, v, 0))

\* a * k + c for 0 <= k, c < 2^15
RECURSIVE BMulSmallC(_, _, _)
BMulSmallC(a, k, c) ==
    IF a = <<>> THEN (IF c = 0 THEN <<>> ELSE <<c>>)
    ELSE LET t == a[1] * k + c
         IN  <<t % Base>> \o BMulSmallC(Tail(a), k, t \div Base)
BMulSmall(a, k) == BNorm(BMulSmallC(a, k, 0))

RECURSIVE BMul(_, _)
BMul(a, v) ==
    IF a = <<>> \/ v = <<>> THEN <<>>
    ELSE BAdd(BMulSmall(a, v[1]),
              LET hi == BMul(a, Tail(v)) IN IF hi = <<>> THEN <<>> ELSE <<0>> \o hi)

\* -1, 0, 1 as a < v, a = v, a > v
RECURSIVE BCmpFrom(_, _, _)
BCmpFrom(a, v, i) ==
    IF i = 0 THEN 0
    ELSE IF a[i] < v[i] THEN -1
    ELSE IF a[i] > v[i] THEN 1
    ELSE BCmpFrom(a, v, i - 1)
BCmp(a, v) ==
    IF Len(a) < Len(v) THEN -1
    ELSE IF Len(a) > Len(v) THEN 1
    ELSE BCmpFrom(a, v, Len(a))

\* a * 2^k and floor(a / 2^k)
BShl(a, k) ==
    IF a = <<>> THEN a
    ELSE [i \in 1 .. k \div LimbBits |-> 0] \o BMulSmall(a, 2 ^ (k % LimbBits))
BShr(a, k) ==
    LET q == k \div LimbBits
        r == k % LimbBits
        c == IF q >= Len(a) THEN <<>> ELSE SubSeq(a, q + 1, Len(a))
    IN  BNorm([i \in 1 .. Len(c) |->
                 (c[i] \div (2 ^ r))
                 + ((IF i < Len(c) THEN c[i + 1] ELSE 0) % (2 ^ r)) * (2 ^ (LimbBits - r))])

RECURSIVE BitLenSmall(_)
BitLenSmall(x) == IF x = 0 THEN 0 ELSE 1 + BitLenSmall(x \div 2)
BBitLen(a) == IF a = <<>> THEN 0 ELSE LimbBits * (Len(a) - 1) + BitLenSmall(a[Len(a)])

\* bit i of a, and whether any of the bits 0 .. k-1 is set
BBit(a, i) ==
    IF i \div LimbBits >= Len(a) THEN 0
    ELSE (a[i \div LimbBits + 1] \div (2 ^ (i % LimbBits))) % 2
BLowNonZero(a, k) ==
    \/ \E j \in 1 .. Len(a) : j <= k \div LimbBits /\ a[j] # 0
    \/ k \div LimbBits < Len(a) /\ a[k \div LimbBits + 1] % (2 ^ (k % LimbBits)) # 0

BSmall(a) == BHead(a) + (IF Len(a) >= 2 THEN a[2] * Base ELSE 0)

\* the largest q with q * d <= r, for r < d * 2^15
RECURSIVE BDigitUp(_, _, _)
BDigitUp(r, d, q) ==
    IF BCmp(BMulSmall(d, q + 1), r) <= 0 THEN BDigitUp(r, d, q + 1) ELSE q
BDigit(r, d) ==
    LET sh == IF BBitLen(d) > LimbBits THEN BBitLen(d) - LimbBits ELSE 0
        dh == BSmall(BShr(d, sh))
        rh == BSmall(BShr(r, sh))
    IN  IF sh = 0 THEN rh \div dh ELSE BDigitUp(r, d, rh \div (dh + 1))

\* <<floor(a / d), a mod d>> by long division.  The digits a[i], ..., a[1] are
\* still to be brought down, q is the quotient and r the remainder so far.
RECURSIVE BDivFrom(_, _, _, _, _)
BDivFrom(a, d, i, q, r) ==
    IF i = 0 THEN <<q, r>>
    ELSE LET r1 == BNorm(<<a[i]>> \o r)
         IN  IF BCmp(r1, d) < 0
             THEN BDivFrom(a, d, i - 1, BNorm(<<0>> \o q), r1)
             ELSE LET k == BDigit(r1, d)
                  IN  BDivFrom(a, d, i - 1, <<k>> \o q, BSub(r1, BMulSmall(d, k)))
BDivMod(a, d) == BDivFrom(a, d, Len(a), <<>>, <<>>)

\* floor(sqrt(a)) by Newton's iteration from above
RECURSIVE BSqrtDown(_, _)
BSqrtDown(a, x) ==
    LET y == BShr(BAdd(x, BDivMod(a, x)[1]), 1)
    IN  IF BCmp(y, x) >= 0 THEN x ELSE BSqrtDown(a, y)
BSqrt(a) == IF a = <<>> THEN a ELSE BSqrtDown(a, BShl(<<1>>, (BBitLen(a) + 1) \div 2))

(* ------------------------------ float64 -------------------------------- *)
\* A float64 is nan, +-inf, +-0 (man = <<>>) or sign * man * 2^exp with man
\* of exactly Prec bits.  Results are rounded to nearest, ties to even.  The
\* exponent is not bounded: nothing here comes near 1e308 or 1e-308.
Prec == 53

Fin(sign, man, exp) == [cls |-> "fin", sign |-> sign, man |-> man, exp |-> exp]
Inf(sign) == [cls |-> "inf", sign |-> sign, man |-> <<>>, exp |-> 0]
NaN == [cls |-> "nan", sign |-> 1, man |-> <<>>, exp |-> 0]
SignedZero(sign) == Fin(sign, <<>>, 0)
Zero == SignedZero(1)

IsNaN(a) == a.cls = "nan"
IsInf(a) == a.cls = "inf"
IsFinite(a) == a.cls = "fin"
IsZero(a) == a.cls = "fin" /\ a.man = <<>>

\* sign * man * 2^exp (+ something below the last bit of man if sticky),
\* rounded to Prec bits
Round(sign, man, exp, sticky) ==
    LET len == BBitLen(man)
        k == len - Prec
        q == BShr(man, k)
        up == /\ BBit(man, k - 1) = 1
              /\ (sticky \/ BLowNonZero(man, k - 1) \/ BBit(q, 0) = 1)
        q2 == IF up THEN BAdd(q, <<1>>) ELSE q
    IN  IF man = <<>> THEN SignedZero(sign)
        ELSE IF k <= 0 THEN Fin(sign, BShl(man, -k), exp + k)
        ELSE IF BBitLen(q2) > Prec THEN Fin(sign, BShr(q2, 1), exp + k + 1)
        ELSE Fin(sign, q2, exp + k)

RInt(k) == Round(IF k < 0 THEN -1 ELSE 1, BNat(Abs(k)), 0, FALSE)

RNeg(a) == IF IsNaN(a) THEN a ELSE [a EXCEPT !.sign = -a.sign]

RMul(a, v) ==
    IF IsNaN(a) \/ IsNaN(v) THEN NaN
    ELSE IF IsInf(a) \/ IsInf(v)
    THEN (IF IsZero(a) \/ IsZero(v) THEN NaN ELSE Inf(a.sign * v.sign))
    ELSE Round(a.sign * v.sign, BMul(a.man, v.man), a.exp + v.exp, FALSE)

\* the significand of the dividend is shifted up by DivShift bits before the
\* division: the quotient then has the Prec bits, the bit after them and more
DivShift == Prec + 5
RDiv(a, v) ==
    IF IsNaN(a) \/ IsNaN(v) THEN NaN
    ELSE IF IsInf(a) THEN (IF IsInf(v) THEN NaN ELSE Inf(a.sign * v.sign))
    ELSE IF IsInf(v) THEN SignedZero(a.sign * v.sign)
    ELSE IF IsZero(v) THEN (IF IsZero(a) THEN NaN ELSE Inf(a.sign * v.sign))
    ELSE IF IsZero(a) THEN SignedZero(a.sign * v.sign)
    ELSE LET qr == BDivMod(BShl(a.man, DivShift), v.man)
         IN  Round(a.sign * v.sign, qr[1], a.exp - v.exp - DivShift, qr[2] # <<>>)

RInv(a) == RDiv(RInt(1), a)

\* beyond this difference of exponents the smaller term cannot change the sum
FarApart == 2 * Prec + 5
RAdd(a, v) ==
    IF IsNaN(a) \/ IsNaN(v) THEN NaN
    ELSE IF IsInf(a) THEN (IF IsInf(v) /\ a.sign # v.sign THEN NaN ELSE a)
    ELSE IF IsInf(v) THEN v
    ELSE IF IsZero(a) /\ IsZero(v) THEN SignedZero(IF a.sign = -1 /\ v.sign = -1 THEN -1 ELSE 1)
    ELSE IF IsZero(a) THEN v
    ELSE IF IsZero(v) THEN a
    ELSE IF a.exp - v.exp > FarApart THEN a
    ELSE IF v.exp - a.exp > FarApart THEN v
    ELSE LET ex == IF a.exp < v.exp THEN a.exp ELSE v.exp
             x == BShl(a.man, a.exp - ex)
             y == BShl(v.man, v.exp - ex)
             c == BCmp(x, y)
         IN  IF a.sign = v.sign THEN Round(a.sign, BAdd(x, y), ex, FALSE)
             ELSE IF c = 0 THEN Zero
             ELSE IF c > 0 THEN Round(a.sign, BSub(x, y), ex, FALSE)
             ELSE Round(v.sign, BSub(y, x), ex, FALSE)

RSub(a, v) == RAdd(a, RNeg(v))
\* x**2. for an array x: numpy squares, x*x
RSq(a) == RMul(a, a)

\* sign * man * 2^exp (+ something below the last bit of man if sticky) cut
\* to Prec bits and, if `up` and anything was cut off, moved on by one unit in
\* the last place
Cut(sign, man, exp, sticky, up) ==
    LET len == BBitLen(man)
        k == len - Prec
        q == BShr(man, k)
        q2 == IF up /\ (sticky \/ BLowNonZero(man, k)) THEN BAdd(q, <<1>>) ELSE q
    IN  IF man = <<>> THEN SignedZero(sign)
        ELSE IF k <= 0 THEN Fin(sign, BShl(man, -k), exp + k)
        ELSE IF BBitLen(q2) > Prec THEN Fin(sign, BShr(q2, 1), exp + k + 1)
        ELSE Fin(sign, q2, exp + k)

\* What the C library's pow can return for an exact value: its error is below
\* one unit in the last place but it need not round to nearest, so either of
\* the two float64 next to the exact value (the value itself if it is one).
Faithful(sign, man, exp, sticky) ==
    {Cut(sign, man, exp, sticky, FALSE), Cut(sign, man, exp, sticky, TRUE)}

\* x**2. for a scalar x: pow(x, 2.0)
RPow2(a) ==
    IF IsNaN(a) THEN {NaN}
    ELSE IF IsInf(a) THEN {Inf(1)}
    ELSE Faithful(1, BMul(a.man, a.man), 2 * a.exp, FALSE)

\* x**3.0 for a scalar x: pow(x, 3.0)
RCube(a) ==
    IF IsNaN(a) THEN {NaN}
    ELSE IF IsInf(a) THEN {a}
    ELSE Faithful(a.sign, BMul(a.man, BMul(a.man, a.man)), 3 * a.exp, FALSE)

\* The square root of man * 2^exp: man is cut to SqrtBits bits or a bit more,
\* its exponent made even, and the integer square root taken; `more` says
\* that the root lies above sqrtMan * 2^sqrtExp.
SqrtBits == 2 * (Prec + 3)
SqrtOf(man, exp) ==
    LET len == BBitLen(man)
        k0 == len - SqrtBits
        k == IF (exp + k0) % 2 = 0 THEN k0 ELSE k0 - 1
        cut == IF k > 0 THEN BShr(man, k) ELSE BShl(man, -k)
        q == BSqrt(cut)
    IN  [sqrtMan |-> q, sqrtExp |-> (exp + k) \div 2,
         more |-> (k > 0 /\ BLowNonZero(man, k)) \/ BMul(q, q) # cut]

\* np.sqrt(a), correctly rounded
RSqrt(a) ==
    IF IsNaN(a) THEN NaN
    ELSE IF IsZero(a) THEN a
    ELSE IF a.sign = -1 THEN NaN
    ELSE IF IsInf(a) THEN a
    ELSE LET r == SqrtOf(a.man, a.exp)
         IN  Round(1, r.sqrtMan, r.sqrtExp, r.more)

\* x**(3./2.) for a scalar x: pow(x, 1.5)
RPow15(a) ==
    IF IsNaN(a) THEN {NaN}
    ELSE IF IsZero(a) THEN {Zero}
    ELSE IF IsInf(a) THEN {Inf(1)}
    ELSE IF a.sign = -1 THEN {NaN}
    ELSE LET r == SqrtOf(BMul(a.man, BMul(a.man, a.man)), 3 * a.exp)
         IN  Faithful(1, r.sqrtMan, r.sqrtExp, r.more)

\* sum(f[lo .. hi]) as Python's sum takes it: from 0, one element after the
\* other (nan, once reached, stays)
RECURSIVE RSumFrom(_, _, _, _)
RSumFrom(acc, f, i, hi) ==
    IF i > hi \/ IsNaN(acc) THEN acc ELSE RSumFrom(RAdd(acc, f[i]), f, i + 1, hi)
RSum(f, lo, hi) == RSumFrom(Zero, f, lo, hi)


(* ------------------------------ the state ------------------------------ *)
VARIABLES
    pc,           \* the next cell (or the statement of get_Vtot) to run
    status,       \* ename of the last cell run, "ok" when it raised nothing
    names,        \* the kernel's global namespace
    runs,         \* how many times In[51] has called get_Vtot
    g, halfWidth, \* points per axis; the box is [-halfWidth, halfWidth]^3
    g3, p, xs, ys, zs, h,
    distances, Vext, ncomp, ncomppot,
    I, L, L3, T,
    Vguess, Hamiltonian, eigenvectors, Psi, n, b, Vx, Vh, \* get_Vtot's frame
    Vtot,         \* the global that In[51] binds to what get_Vtot returns
    Lc, L3f       \* results of applying L and L3 to test vectors

gridVars == <<g, halfWidth, g3, p, xs, ys, zs, h>>
potVars == <<distances, Vext, ncomp, ncomppot>>
lapVars == <<I, L, L3, T>>
frameVars == <<Vguess, Hamiltonian, eigenvectors, Psi, n, b, Vx, Vh>>
testVars == <<Lc, L3f>>
vars == <<pc, status, names, runs, gridVars, potVars, lapVars, frameVars, Vtot, testVars>>

\* The value of a name that is not bound yet.
Unbound == <<>>

(* -------------------------------- grid --------------------------------- *)
\* np.linspace(start, stop, num)[i]: delta = stop - start, div = num - 1;
\* with div > 0, step = delta / div and y = arange(num) * step, or
\* y = arange(num) / div * delta when step is zero; with div = 0,
\* y = arange(num) * delta.  Then y += start, and with num > 1 the last
\* element is set to stop.
linspace(start, stop, num) ==
    LET delta == RSub(stop, start)
        div == num - 1
        step == RDiv(delta, RInt(div))
    IN  [i \in 0 .. num - 1 |->
            IF num > 1 /\ i = num - 1 THEN stop
            ELSE IF div <= 0 THEN RAdd(RMul(RInt(i), delta), start)
            ELSE IF IsZero(step) THEN RAdd(RMul(RDiv(RInt(i), RInt(div)), delta), start)
            ELSE RAdd(RMul(RInt(i), step), start)]

\* np.meshgrid(p, p, p) with the default indexing 'xy', then .flatten():
\* the flat index of [i, j, k] is i*g*g + j*g + k, and
\* xs[i,j,k] = p[j], ys[i,j,k] = p[i], zs[i,j,k] = p[k].
AxisI(idx, gg) == idx \div (gg * gg)
AxisJ(idx, gg) == (idx \div gg) % gg
AxisK(idx, gg) == idx % gg
Flat(i, j, k, gg) == i * gg * gg + j * gg + k

meshgrid_xs(pp, gg) == [idx \in 0 .. gg * gg * gg - 1 |-> pp[AxisJ(idx, gg)]]
meshgrid_ys(pp, gg) == [idx \in 0 .. gg * gg * gg - 1 |-> pp[AxisI(idx, gg)]]
meshgrid_zs(pp, gg) == [idx \in 0 .. gg * gg * gg - 1 |-> pp[AxisK(idx, gg)]]

Goto(next, ename, bound) ==
    /\ pc' = next
    /\ status' = ename
    /\ names' = names \cup bound

\* In[2]: g, g3, p, meshgrid, h = p[1] - p[0], flatten.  With g = 1 the array
\* p has one element and p[1] raises IndexError after meshgrid has run.
Cell_Grid ==
    /\ pc = "In2"
    /\ g3' = g * g * g
    /\ p' = linspace(RNeg(RInt(halfWidth)), RInt(halfWidth), g)
    /\ xs' = meshgrid_xs(p', g)
    /\ ys' = meshgrid_ys(p', g)
    /\ zs' = meshgrid_zs(p', g)
    /\ IF g < 2
       THEN /\ h' = h
            /\ Goto("halted", "IndexError", {"g", "g3", "p", "xs", "ys", "zs"})
       ELSE /\ h' = RSub(p'[1], p'[0])
            /\ Goto("In3", "ok", {"g", "g3", "p", "xs", "ys", "zs", "h"})
    /\ UNCHANGED <<runs, g, halfWidth, potVars, lapVars, frameVars, Vtot, testVars>>

\* In[3]: hbar = m = e = 1.0
Cell_Units ==
    /\ pc = "In3"
    /\ Goto("In4", "ok", {"hbar", "m", "e"})
    /\ UNCHANGED <<runs, gridVars, potVars, lapVars, frameVars, Vtot, testVars>>

(* ------------------------------ potentials ----------------------------- *)
\* xs**2. + ys**2. + zs**2. at one grid point
SumOfSquares(x, y, z) == RAdd(RAdd(RSq(x), RSq(y)), RSq(z))

\* In[4]: distances = np.sqrt(xs**2. + ys**2. + zs**2.)
Cell_Distances ==
    /\ pc = "In4"
    /\ distances' = [idx \in 0 .. g3 - 1 |-> RSqrt(SumOfSquares(xs[idx], ys[idx], zs[idx]))]
    /\ Goto("In5", "ok", {"distances"})
    /\ UNCHANGED <<runs, gridVars, Vext, ncomp, ncomppot, lapVars, frameVars, Vtot,
                   testVars>>

\* Vext = -2.0 / distances * e**2., e2 being e**2.  At distance 0 this is
\* -inf: numpy warns and goes on.
VextAt(d, e2) == RMul(RDiv(RInt(-2), d), e2)

Cell_Vext ==
    /\ pc = "In5"
    /\ \E e2 \in RPow2(RInt(e)) :
          Vext' = [format |-> "array",
                   diag |-> [idx \in 0 .. g3 - 1 |-> VextAt(distances[idx], e2)]]
    /\ Goto("In6", "ok", {"Vext"})
    /\ UNCHANGED <<runs, gridVars, distances, ncomp, ncomppot, lapVars, frameVars, Vtot,
                   testVars>>

\* In[6]: Vext = sparse.spdiags(Vext, 0, g3, g3)
Cell_SparseVext ==
    /\ pc = "In6"
    /\ Vext' = [Vext EXCEPT !.format = "dia"]
    /\ Goto("In7", "ok", {"scipy", "sparse", "linalg"})
    /\ UNCHANGED <<runs, gridVars, distances, ncomp, ncomppot, lapVars, frameVars, Vtot,
                   testVars>>

\* ncomppot = -2.0 / distances * erf(distances / np.sqrt(2.0)): the entry is
\* coef * erf(erfOf).  erf(0) is 0 and erf(nan) is nan, so there the product
\* is taken: at distance 0 it is -inf * 0 = nan.
NcomppotAt(d) ==
    LET q == RDiv(RInt(-2), d)
        a == RDiv(d, RSqrt(RInt(2)))
    IN  [coef |-> IF IsZero(a) \/ IsNaN(a) THEN RMul(q, a) ELSE q, erfOf |-> a]

\* ncomp = np.exp(-distances**2. / 2.0), then -2.0 * ncomp / sum(ncomp) / h**3.0:
\* the entry is -2 * exp(expOf) / sum(exp(..)) / overCube, h3 being h**3.0.
NcompAt(d, h3) == [expOf |-> RDiv(RNeg(RSq(d)), RInt(2)), overCube |-> h3]

\* In[7]
Cell_Ncomp ==
    /\ pc = "In7"
    /\ \E h3 \in RCube(h) : ncomp' = [idx \in 0 .. g3 - 1 |-> NcompAt(distances[idx], h3)]
    /\ ncomppot' = [idx \in 0 .. g3 - 1 |-> NcomppotAt(distances[idx])]
    /\ Goto("In8", "ok", {"special", "ncomp", "ncomppot"})
    /\ UNCHANGED <<runs, gridVars, distances, Vext, lapVars, frameVars, Vtot, testVars>>

(* ------------------------------ Laplacian ------------------------------ *)
\* sparse.eye(gg)
eye(gg) == [i \in 0 .. gg - 1 |-> [j \in 0 .. gg - 1 |-> IF i = j THEN RInt(1) ELSE Zero]]

\* np.ones(gg)
ones(gg) == [j \in 0 .. gg - 1 |-> RInt(1)]

\* sparse.spdiags(data, diags, rows, cols): data[k][j] is stored at row
\* j - diags[k], column j; everything else is a structural zero.
spdiags(data, diags, rows, cols) ==
    [i \in 0 .. rows - 1 |-> [j \in 0 .. cols - 1 |->
        IF \E k \in DOMAIN diags : diags[k] = j - i
        THEN data[CHOOSE k \in DOMAIN diags : diags[k] = j - i][j]
        ELSE Zero]]

\* A / s for a sparse A and a scalar s: scipy multiplies the stored entries by
\* 1. / s; structural zeros stay.
DivSparse(A, s) ==
    [i \in DOMAIN A |-> [j \in DOMAIN A[i] |->
        IF IsZero(A[i][j]) THEN Zero ELSE RMul(A[i][j], RInv(s))]]

\* The three rows [_, -2.0*_, _] handed to spdiags.
StencilData_NoCentre(gg) ==
    <<ones(gg), [j \in 0 .. gg - 1 |-> RInt(-1)], ones(gg)>>
StencilData(gg) ==
    <<ones(gg), [j \in 0 .. gg - 1 |-> RMul(RInt(-2), ones(gg)[j])], ones(gg)>>

\* L = sparse.spdiags([_, -2.0*_, _], [-1, 0, 1], g, g) / h**2., h2 being
\* the scalar h**2.
BuildL(gg, h2) == DivSparse(spdiags(StencilData(gg), <<-1, 0, 1>>, gg, gg), h2)

\* kron(kron(A, B), C)[Flat(i,j,k), Flat(i2,j2,k2)] = A[i][i2] * B[j][j2] * C[k][k2].
\* L3 is kept as its three Kronecker terms, in the order they are added.
KronSum_TwoTerms(LL, II) == << <<LL, II, II>>, <<II, LL, II>> >>
KronSum(LL, II) == << <<LL, II, II>>, <<II, LL, II>>, <<II, II, LL>> >>

\* In[8]: I = sparse.eye(g)
Cell_I ==
    /\ pc = "In8"
    /\ I' = eye(g)
    /\ Goto("In9", "ok", {"I"})
    /\ UNCHANGED <<runs, gridVars, potVars, L, L3, T, frameVars, Vtot, testVars>>

\* In[9]
Cell_L ==
    /\ pc = "In9"
    /\ \E h2 \in RPow2(h) : L' = BuildL(g, h2)
    /\ Goto("In15", "ok", {"_", "L"})
    /\ UNCHANGED <<runs, gridVars, potVars, I, L3, T, frameVars, Vtot, testVars>>

\* In[15]: L3, T = -0.5 * hbar**2. / m * L3, then L3.shape, ncomp.shape and
\* n.shape, which raises NameError: n is bound only inside get_Vtot.
Cell_L3 ==
    /\ pc = "In15"
    /\ L3' = KronSum(L, I)
    /\ \E hbar2 \in RPow2(RInt(hbar)) :
          T' = [coef |-> RDiv(RMul(RDiv(RInt(-1), RInt(2)), hbar2), RInt(m)),
                terms |-> L3']
    /\ Goto("In50", "NameError", {"L3", "T"})
    /\ UNCHANGED <<runs, gridVars, potVars, I, L, frameVars, Vtot, testVars>>

(* ----------------------- applying the operators ------------------------ *)
\* the elements of a finite set of integers in ascending order
RECURSIVE Ascending(_)
Ascending(S) ==
    IF S = {} THEN <<>>
    ELSE LET lo == CHOOSE x \in S : \A y \in S : x <= y
         IN  <<lo>> \o Ascending(S \ {lo})

\* the columns of row i that hold a stored entry
Stored(A, i) == {j \in DOMAIN A[i] : ~IsZero(A[i][j])}

\* (A v)[i] for a sparse g x g matrix: the products of the stored entries of
\* row i, added up from 0 in the order of the columns
MatVec(A, v) ==
    [i \in DOMAIN A |->
        LET cols == Ascending(Stored(A, i))
        IN  RSum([j \in 1 .. Len(cols) |-> RMul(A[i][cols[j]], v[cols[j]])], 1, Len(cols))]

\* kron(kron(A, B), C): the columns stored in row a, and the entry at [a, c]
KronCols(t, a, gg) ==
    {Flat(i2, j2, k2, gg) : i2 \in Stored(t[1], AxisI(a, gg)),
                            j2 \in Stored(t[2], AxisJ(a, gg)),
                            k2 \in Stored(t[3], AxisK(a, gg))}
KronAt(t, a, c, gg) ==
    RMul(RMul(t[1][AxisI(a, gg)][AxisI(c, gg)], t[2][AxisJ(a, gg)][AxisJ(c, gg)]),
         t[3][AxisK(a, gg)][AxisK(c, gg)])

\* the entry at [a, c] of a sum M of Kronecker terms: the entries of the terms
\* that store one there, added in the order of the terms
SumAt(M, a, c, gg) ==
    LET ts == Ascending({t \in 1 .. Len(M) : c \in KronCols(M[t], a, gg)})
    IN  RSum([t \in 1 .. Len(ts) |-> KronAt(M[ts[t]], a, c, gg)], 1, Len(ts))

\* (M v) for M a sum of Kronecker terms
MatVec3(M, v, gg) ==
    [a \in 0 .. gg * gg * gg - 1 |->
        LET cols == Ascending(UNION {KronCols(M[t], a, gg) : t \in 1 .. Len(M)})
        IN  RSum([j \in 1 .. Len(cols) |-> RMul(SumAt(M, a, cols[j], gg), v[cols[j]])],
                 1, Len(cols))]

\* f(x, y, z) = x^2 + y^2 + z^2 sampled on the flattened grid
Quadratic == [idx \in 0 .. g3 - 1 |-> SumOfSquares(xs[idx], ys[idx], zs[idx])]

\* L applied to the constant vector c * ones(g)
ApplyL ==
    /\ "L" \in names
    /\ \E c \in (-MaxConst) .. MaxConst :
          Lc' = [c |-> c, out |-> MatVec(L, [j \in 0 .. g - 1 |-> RInt(c)])]
    /\ UNCHANGED <<pc, status, names, runs, gridVars, potVars, lapVars, frameVars, Vtot, L3f>>

\* L3 applied to the samples of x^2 + y^2 + z^2
ApplyL3 ==
    /\ "L3" \in names
    /\ L3f = Unbound
    /\ L3f' = MatVec3(L3, Quadratic, g)
    /\ UNCHANGED <<pc, status, names, runs, gridVars, potVars, lapVars, frameVars, Vtot, Lc>>

(* ------------------------------ get_Vtot ------------------------------- *)
\* A sparse matrix built by adding matrices is kept as the bag of the matrices
\* added: T, Vext, and the Vx and Vh of a given call of get_Vtot.
Term(name, run) == [name |-> name, run |-> run]
Matrix(name, run) == SetToBag({Term(name, run)})

\* In[51], first statement of the call get_Vtot(Vext):
\*   Hamiltonian = T + Vguess
Call_Hamiltonian ==
    /\ pc \in {"In51", "In52"}
    /\ runs < MaxRuns
    /\ runs' = runs + 1
    /\ Vguess' = Matrix("Vext", 0)
    /\ Hamiltonian' = Matrix("T", 0) (+) Vguess'
    /\ pc' = "eigs"
    /\ UNCHANGED <<status, names, gridVars, potVars, lapVars, eigenvectors, Psi, n, b, Vx,
                   Vh, Vtot, testVars>>

\* T + Vext has no inf or nan entry
FiniteHamiltonian ==
    /\ \A i, j \in 0 .. g - 1 : IsFinite(L[i][j])
    /\ \A idx \in 0 .. g3 - 1 : IsFinite(Vext.diag[idx])

\* ones(N) / sqrt(N) and its negative: the vectors of 2-norm 1 along ones(N)
EigVec(sign, N) == [idx \in 0 .. N - 1 |-> RDiv(RInt(sign), RSqrt(RInt(N)))]

\* an eigenvector whose components are not worked out here
NotDerived(N) == [idx \in 0 .. N - 1 |-> [component |-> idx, of |-> "eigenvectors[:,0]"]]
Derived(v) == "cls" \in DOMAIN v[0]

\* What eigs(T + Vext, k=3, which='SR') can hand back as eigenvectors[:,0]: the
\* eigenvector of the smallest eigenvalue, of 2-norm 1 and of either sign.
\* With g = 2 all eight points are at one distance, Vext is a multiple of the
\* identity and the lowest eigenvector of T = -L3/2 is the constant one.  On a
\* larger grid the eigenvector is not constant and is left symbolic.  From a
\* matrix with an inf or nan entry nothing but nan can come back.
eigs ==
    IF ~FiniteHamiltonian THEN {[idx \in 0 .. g3 - 1 |-> NaN]}
    ELSE IF g = 2 THEN {EigVec(1, g3), EigVec(-1, g3)}
    ELSE {NotDerived(g3)}

\* eigenvalues, eigenvectors = sparse.linalg.eigs(Hamiltonian, k=3, which='SR')
Call_Eigs ==
    /\ pc = "eigs"
    /\ eigenvectors' \in eigs
    /\ pc' = "density"
    /\ UNCHANGED <<status, names, runs, gridVars, potVars, lapVars, Vguess, Hamiltonian,
                   Psi, n, b, Vx, Vh, Vtot, testVars>>

\* ... or ARPACK raises, which nothing catches.
Call_EigsRaises ==
    /\ pc = "eigs"
    /\ pc' = "halted"
    /\ status' \in {"ArpackNoConvergence", "ArpackError"}
    /\ UNCHANGED <<names, runs, gridVars, potVars, lapVars, frameVars, Vtot, testVars>>

\* numpy's division of the complex128 a = re + im j by a divisor br + 0j
\* (a complex sum whose imaginary part is zero, or a float64 cast to
\* complex128): rat = 0/br, scl = 1.0/(br + 0*rat), and the quotient is
\* ((re + im*rat)*scl, (im - re*rat)*scl): a reciprocal, then a product.
\* A zero divisor gives (re/0, im/0); a nan divisor gives nan.
ComplexOverReal(a, br) ==
    IF IsNaN(br) THEN [re |-> NaN, im |-> NaN]
    ELSE IF IsZero(br) THEN [re |-> RDiv(a.re, Zero), im |-> RDiv(a.im, Zero)]
    ELSE LET rat == RDiv(Zero, br)
             scl == RDiv(RInt(1), RAdd(br, RMul(Zero, rat)))
         IN  [re |-> RMul(RAdd(a.re, RMul(a.im, rat)), scl),
              im |-> RMul(RSub(a.im, RMul(a.re, rat)), scl)]

\* Psi = eigenvectors[:,0] / sum(eigenvectors[:,0]);  Psi /= h**(3./2.),
\* d being h**(3./2.)
\* (eigs hands back complex arrays; the imaginary parts are zero, and Psi
\* is kept as its real part.)
Normalize(v, d) ==
    IF Derived(v)
    THEN LET s == RSum(v, 0, Cardinality(DOMAIN v) - 1)
         IN  [idx \in DOMAIN v |->
                 ComplexOverReal(ComplexOverReal([re |-> v[idx], im |-> Zero], s), d).re]
    ELSE [idx \in DOMAIN v |-> [normalised |-> v[idx]]]

\* n = 2. * Psi**2.
Density(psi) ==
    IF Derived(psi)
    THEN [idx \in DOMAIN psi |-> RMul(RInt(2), RSq(psi[idx]))]
    ELSE [idx \in DOMAIN psi |-> [twiceSquareOf |-> psi[idx]]]

\* lines 249-257: Psi, n, b = -4 pi (n + ncomp), Vx = -(3/pi)^(1/3) n^(1/3)
Call_Density ==
    /\ pc = "density"
    /\ \E d \in RPow15(h) : Psi' = Normalize(eigenvectors, d)
    /\ n' = Density(Psi')
    /\ b' = [idx \in 0 .. g3 - 1 |-> [timesMinus4Pi |-> <<n'[idx], ncomp[idx]>>]]
    /\ Vx' = [idx \in 0 .. g3 - 1 |-> [timesMinusCbrt3OverPi |-> [cbrtOf |-> n'[idx]]]]
    /\ pc' = "cgs"
    /\ UNCHANGED <<status, names, runs, gridVars, potVars, lapVars, Vguess, Hamiltonian,
                   eigenvectors, Vh, Vtot, testVars>>

\* Vh = sparse.linalg.cgs(A=L3, b=b, tol=1e-7, maxiter=400): the pair (x, info).
\* info = 0: the residual of x is within tol; info = maxiter: the cap was
\* reached first; info < 0: illegal input or breakdown.
Call_Cgs ==
    /\ pc = "cgs"
    /\ \E info \in {0, maxiter, -1} :
          Vh' = <<[solves |-> "L3 x = b",
                   residual |-> CASE info = 0 -> "within tol"
                                  [] info > 0 -> "above tol at maxiter"
                                  [] OTHER -> "breakdown"],
                  info>>
    /\ pc' = "return"
    /\ UNCHANGED <<status, names, runs, gridVars, potVars, lapVars, Vguess, Hamiltonian,
                   eigenvectors, Psi, n, b, Vx, Vtot, testVars>>

\* lines 259-266 and the rest of In[51]:  Vh = Vh[0] - ncomppot (info is
\* dropped unread), Vx and Vh become diagonal matrices, Vtot = Vx + Vh + Vext
\* is returned and bound to the global Vtot; then `aaa` raises NameError.
Call_Return ==
    /\ pc = "return"
    /\ Vh' = [x |-> Vh[1], minus |-> "ncomppot"]
    /\ Vtot' = [matrix |-> Matrix("Vx", runs) (+) Matrix("Vh", runs) (+) Matrix("Vext", 0)]
    /\ Goto("In52", "NameError", {"Vtot"})
    /\ UNCHANGED <<runs, gridVars, potVars, lapVars, Vguess, Hamiltonian, eigenvectors,
                   Psi, n, b, Vx, testVars>>

\* In[50]: def get_Vtot(Vguess)
Cell_Def ==
    /\ pc = "In50"
    /\ Goto("In51", "ok", {"get_Vtot"})
    /\ UNCHANGED <<runs, gridVars, potVars, lapVars, frameVars, Vtot, testVars>>

\* In[52]: eigs(Hamiltonian, ...) at top level: Hamiltonian is local to
\* get_Vtot, so NameError.
Cell_GlobalEigs ==
    /\ pc = "In52"
    /\ Goto("In53", "NameError", {})
    /\ UNCHANGED <<runs, gridVars, potVars, lapVars, frameVars, Vtot, testVars>>

\* In[53]: print of eigenvalues[0] * 27.21: eigenvalues was never bound.
Cell_Print ==
    /\ pc = "In53"
    /\ Goto("end", "NameError", {})
    /\ UNCHANGED <<runs, gridVars, potVars, lapVars, frameVars, Vtot, testVars>>

(* --------------------------- specifications ---------------------------- *)
InitWith(gs, ws) ==
    /\ pc = "In2"
    /\ status = "ok"
    /\ names = {"np", "pyplot"}
    /\ runs = 0
    /\ g \in gs
    /\ halfWidth \in ws
    /\ g3 = 0
    /\ h = NaN
    /\ p = Unbound /\ xs = Unbound /\ ys = Unbound /\ zs = Unbound
    /\ distances = Unbound /\ Vext = Unbound /\ ncomp = Unbound /\ ncomppot = Unbound
    /\ I = Unbound /\ L = Unbound /\ L3 = Unbound /\ T = Unbound
    /\ Vguess = Unbound /\ Hamiltonian = Unbound /\ eigenvectors = Unbound
    /\ Psi = Unbound /\ n = Unbound /\ b = Unbound /\ Vx = Unbound /\ Vh = Unbound
    /\ Vtot = Unbound
    /\ Lc = Unbound /\ L3f = Unbound

\* The notebook, for any g >= 1 and any half-width, valid or not.
Init == InitWith(1 .. MaxG, (-1) .. MaxHalfWidth)

Setup ==
    \/ Cell_Grid
    \/ Cell_Units
    \/ Cell_Distances
    \/ Cell_Vext
    \/ Cell_SparseVext
    \/ Cell_Ncomp
    \/ Cell_I
    \/ Cell_L
    \/ Cell_L3

Next ==
    \/ Setup
    \/ Cell_Def
    \/ Call_Hamiltonian
    \/ Call_Eigs
    \/ Call_EigsRaises
    \/ Call_Density
    \/ Call_Cgs
    \/ Call_Return
    \/ Cell_GlobalEigs
    \/ Cell_Print

Spec == Init /\ [][Next]_vars

\* The operators L and L3 on valid grids, applied to test vectors.
InitLap == InitWith(2 .. MaxG, 1 .. MaxHalfWidth)
NextLap == Setup \/ ApplyL \/ ApplyL3
SpecLap == InitLap /\ [][NextLap]_vars

(* -------------------------------- claims ------------------------------- *)
Outcomes == {"Converged", "MaxIterationsExceeded", "Failed"}
ValidGrid == g >= 2 /\ halfWidth > 0
Returned == pc \in {"In52", "In53", "end"}

\* comparison of float64 values: -1, 0, 1 as a < v, a = v, a > v (neither nan)
Mag(a, v) ==
    IF IsInf(a) THEN (IF IsInf(v) THEN 0 ELSE 1)
    ELSE IF IsInf(v) THEN -1
    ELSE IF IsZero(a) THEN (IF IsZero(v) THEN 0 ELSE -1)
    ELSE IF IsZero(v) THEN 1
    ELSE IF a.exp # v.exp THEN (IF a.exp < v.exp THEN -1 ELSE 1)
    ELSE BCmp(a.man, v.man)
RCmp(a, v) ==
    IF IsZero(a) /\ IsZero(v) THEN 0
    ELSE IF a.sign # v.sign THEN a.sign
    ELSE a.sign * Mag(a, v)
REq(a, v) == ~IsNaN(a) /\ ~IsNaN(v) /\ RCmp(a, v) = 0
RLe(a, v) == ~IsNaN(a) /\ ~IsNaN(v) /\ RCmp(a, v) <= 0
RAbs(a) == IF IsNaN(a) THEN a ELSE [a EXCEPT !.sign = 1]

\* 2^-52, the gap between 1 and the next float64
Epsilon == RMul(RDiv(RInt(1), RInt(2 ^ 26)), RDiv(RInt(1), RInt(2 ^ 26)))
\* |a - c| <= tol
Within(a, c, tol) == RLe(RAbs(RSub(a, c)), tol)

\* C1: whenever a run on a valid grid hands back a potential, the result carries one of the
\* three outcomes Converged, MaxIterationsExceeded or Failed.
C1_ResultCarriesOutcome ==
    (ValidGrid /\ "Vtot" \in names) => ("outcome" \in DOMAIN Vtot /\ Vtot.outcome \in Outcomes)

\* C2: a run on a valid grid whose passes are over without any tolerance having been met and
\* without a failure ends in the terminal state MaxIterationsExceeded.
C2_EndsInTypedTerminalState ==
    (ValidGrid /\ pc = "end" /\ runs >= 1) => status = "MaxIterationsExceeded"

\* C3: with g < 2 or half-width <= 0 the grid cell raises InvalidConfiguration
\* and no spacing, distance array, potential, Laplacian or solve is produced.
C3_InvalidConfigurationStops ==
    (~ValidGrid /\ pc # "In2") =>
        /\ status = "InvalidConfiguration"
        /\ names \cap {"h", "distances", "Vext", "ncomp", "ncomppot", "L", "L3", "T", "Vtot"} = {}

\* C4: on a valid grid, a Poisson solve that stopped at its iteration cap above the tolerance
\* is reported as SolverDidNotConverge and its potential is not put into the
\* returned effective potential.
C4_UnconvergedSolveReported ==
    (ValidGrid /\ Returned /\ Vh.x.residual = "above tol at maxiter") =>
        /\ status = "SolverDidNotConverge"
        /\ ~BagIn(Term("Vh", runs), Vtot.matrix)

\* C5 as stated: L applied to a constant vector is zero in every one of its g
\* components, the first and the last row included.
C5_ConstantGivesZeroEverywhere ==
    Lc # Unbound => \A i \in 0 .. g - 1 : IsZero(Lc.out[i])

\* how many Epsilon the first and the last row may be away from -c/h^2
BoundarySlack == 2 ^ 2

\* C5 as amended: L applied to the constant vector c is exactly zero in every
\* interior row 1 .. g-2; in the first and the last row, where the stencil
\* loses the neighbour that lies outside the grid, it is -c/h^2 to within
\* rounding (a relative error of at most BoundarySlack * 2^-52).
C5_ConstantGivesZeroInInteriorRows ==
    Lc # Unbound =>
        LET edge == RDiv(RInt(-Lc.c), RSq(h))
        IN  /\ \A i \in 1 .. g - 2 : IsZero(Lc.out[i])
            /\ \A i \in {0, g - 1} :
                  Within(Lc.out[i], edge, RMul(RMul(RInt(BoundarySlack), Epsilon), RAbs(edge)))

\* L has been applied to a non-zero constant on a grid with interior rows.
C5_Witness ==
    /\ Lc # Unbound /\ Lc.c # 0 /\ g >= 3
    /\ IsZero(Lc.out[1])
    /\ ~IsZero(Lc.out[0])

Interior(idx, gg) ==
    /\ 0 < AxisI(idx, gg) /\ AxisI(idx, gg) < gg - 1
    /\ 0 < AxisJ(idx, gg) /\ AxisJ(idx, gg) < gg - 1
    /\ 0 < AxisK(idx, gg) /\ AxisK(idx, gg) < gg - 1

\* C6 as stated: L3 applied to the flattened samples of x^2 + y^2 + z^2 is the
\* value 6 at every grid point whose three axis indices are all interior.
C6_QuadraticLaplacianIsExactlySix ==
    L3f # Unbound => \A idx \in 0 .. g3 - 1 : Interior(idx, g) => REq(L3f[idx], RInt(6))

\* how many (g-1)^2 * Epsilon an interior value may be away from 6: the terms
\* added are of the size of (g-1)^2 and each is rounded
RoundingSlack == 2 ^ 6
SixTolerance == RMul(RInt(RoundingSlack * (g - 1) * (g - 1)), Epsilon)

\* C6 as amended: L3 applied to the flattened samples of x^2 + y^2 + z^2 is 6
\* to within rounding, |value - 6| <= RoundingSlack * (g-1)^2 * 2^-52, at
\* every grid point whose three axis indices are all interior.
C6_QuadraticLaplacianIsSix ==
    L3f # Unbound =>
        \A idx \in 0 .. g3 - 1 : Interior(idx, g) => Within(L3f[idx], RInt(6), SixTolerance)

\* L3 has been applied on a grid with an interior point away from the origin
\* where the value is 6 only to within rounding, and a boundary point shows
\* the truncated stencil (a value away from 6).
C6_Witness ==
    /\ L3f # Unbound
    /\ \E idx \in 0 .. g3 - 1 :
          /\ Interior(idx, g)
          /\ ~IsZero(Quadratic[idx])
          /\ ~REq(L3f[idx], RInt(6))
          /\ Within(L3f[idx], RInt(6), SixTolerance)
    /\ \E idx \in 0 .. g3 - 1 :
          ~Interior(idx, g) /\ ~Within(L3f[idx], RInt(6), SixTolerance)

\* h^3, the volume of one grid cell, as the product h*h*h
CellVolume == RMul(RMul(h, h), h)
\* sum_i Psi_i^2 * h^3
ProbabilityIntegral ==
    RSum([idx \in 0 .. g3 - 1 |-> RMul(RSq(Psi[idx]), CellVolume)], 0, g3 - 1)
\* sum_i n_i * h^3
ElectronCount == RSum([idx \in 0 .. g3 - 1 |-> RMul(n[idx], CellVolume)], 0, g3 - 1)
\* the rounding allowed in the two sums
SumTolerance == RDiv(RInt(1), RInt(2 ^ 20))

\* C7: for a real eigenvector with non-zero component sum on a valid grid, the
\* normalised Psi has sum Psi^2 h^3 = 1, and n = 2 Psi^2 is non-negative with
\* sum n h^3 = 2 (both to within SumTolerance).
C7_DensityIntegratesToTwo ==
    (/\ pc = "cgs" /\ ValidGrid /\ Derived(eigenvectors)
     /\ \A idx \in 0 .. g3 - 1 : IsFinite(eigenvectors[idx])
     /\ ~IsZero(RSum(eigenvectors, 0, g3 - 1))) =>
        /\ Within(ProbabilityIntegral, RInt(1), SumTolerance)
        /\ \A idx \in 0 .. g3 - 1 : RLe(Zero, n[idx])
        /\ Within(ElectronCount, RInt(2), SumTolerance)

\* C9: on a valid grid, the first Hamiltonian is T + Vext; every later one is T plus the
\* potential the previous pass returned; T enters each Hamiltonian once and
\* Vext enters each returned potential once; the potentials of a pass are
\* computed from the density of that pass's eigenvector.
C9_ReturnedPotentialFeedsNextPass ==
    ValidGrid =>
    /\ pc = "eigs" =>
          /\ Hamiltonian = Matrix("T", 0) (+) (IF runs = 1 THEN Matrix("Vext", 0) ELSE Vtot.matrix)
          /\ CopiesIn(Term("T", 0), Hamiltonian) = 1
    /\ pc \in {"cgs", "return"} =>
          /\ \E d \in RPow15(h) : Psi = Normalize(eigenvectors, d)
          /\ n = Density(Psi)
    /\ Returned =>
          /\ Vtot.matrix = Matrix("Vx", runs) (+) Matrix("Vh", runs) (+) Matrix("Vext", 0)
          /\ CopiesIn(Term("Vext", 0), Vtot.matrix) = 1

\* C10: on a valid grid with a point at the origin, PotentialBuilder raises
\* SingularPotential or stores finite values: no entry of Vext or of ncomppot
\* is an infinity or nan.
OriginOnGrid == \E idx \in DOMAIN distances : IsZero(distances[idx])
C10_NoSingularEntries ==
    (ValidGrid /\ "distances" \in names /\ OriginOnGrid) =>
        /\ "Vext" \in names =>
              (status = "SingularPotential" \/
               \A idx \in 0 .. g3 - 1 : IsFinite(Vext.diag[idx]))
        /\ "ncomppot" \in names =>
              (status = "SingularPotential" \/
               \A idx \in 0 .. g3 - 1 : IsFinite(ncomppot[idx].coef))

=============================================================================
